---------------------------- MODULE Spec2Model ----------------------------
(***************************************************************************)
(* panic-serial: the panic handler generated by impl_panic_handler!, the   *)
(* static PANIC_PORT it reads, share_serial_port_with_panic which fills    *)
(* it, and _print_panic which renders the PanicInfo on the port.           *)
(*                                                                         *)
(* Bytes are one-character strings, texts are sequences of bytes.  An      *)
(* Option<T> is a sequence of length 0 (None) or 1 (Some).  Every call of  *)
(* flush or write_str on a port is one step; its Result is an input of     *)
(* the step, since the port is the application's driver.                   *)
(***************************************************************************)
EXTENDS Integers, Sequences, FiniteSets

VARIABLES
    location_feature,   \* cfg!(feature="location"), fixed by the build
    message_feature,    \* cfg!(feature="message"), fixed by the build
    PANIC_PORT,         \* static mut PANIC_PORT: Option<$type>
    shared,             \* the ports passed to share_serial_port_with_panic, in call order
    pc,                 \* where the program is: "main", or a place in panic / _print_panic
    info,               \* the PanicInfo the handler was invoked with
    panic_port,         \* the binding of `if let Some(panic_port)` in panic
    out,                \* out[p]: the bytes port p has received
    log                 \* the flush / write_str calls made so far, with their results

vars == <<location_feature, message_feature, PANIC_PORT, shared, pc, info,
          panic_port, out, log>>

\* How many port values the application has to give away.
NumPorts == 2

Ports == 1..NumPorts

None == <<>>

Some(x) == <<x>>

Range(s) == {s[k] : k \in 1..Len(s)}

CRLF == <<"\r", "\n">>

-----------------------------------------------------------------------------
(* The panics the runtime can raise. *)

Locations ==
    { [file |-> <<"m", ".", "r", "s">>, line |-> 91, column |-> 9],
      [file |-> <<"a">>, line |-> 7, column |-> 120] }

Messages == { <<>>, <<"o", "v", "f">> }

\* PanicInfo::location() and PanicInfo::message().as_str()
PanicInfos ==
    [location : {None} \cup {Some(l) : l \in Locations},
     message : {None} \cup {Some(m) : m \in Messages}]

NoInfo == [location |-> None, message |-> None]

-----------------------------------------------------------------------------
(* Formatting. *)

DigitChars == <<"0", "1", "2", "3", "4", "5", "6", "7", "8", "9">>

RECURSIVE DecDigits(_)
DecDigits(n) ==
    IF n < 10 THEN <<DigitChars[n + 1]>>
    ELSE DecDigits(n \div 10) \o <<DigitChars[(n % 10) + 1]>>

RECURSIVE DecReversed(_)
DecReversed(n) ==
    IF n < 10 THEN <<DigitChars[n + 1]>>
    ELSE <<DigitChars[(n % 10) + 1]>> \o DecReversed(n \div 10)

\* uDisplay of a u32: its decimal digits, most significant first.
Dec(n) == DecDigits(n)

\* The write_str calls uwrite!(w, "Panic at {}:{}:{}", ..) expands to, in order.
LocSites == <<"at", "file", "colon1", "line", "colon2", "column">>

\* if message_feature { ": " } else { "\r\n" }
Separator == IF message_feature THEN <<":", " ">> ELSE CRLF

\* The text each write_str call site is given.
Fragment(site, i) ==
    CASE site = "at" -> <<"P", "a", "n", "i", "c", " ", "a", "t", " ">>
      [] site = "file" -> i.location[1].file
      [] site = "colon1" -> <<":">>
      [] site = "line" -> Dec(i.location[1].line)
      [] site = "colon2" -> <<":">>
      [] site = "column" -> Dec(i.location[1].column)
      [] site = "sep" -> Separator
      [] site = "msg" -> i.message[1]
      [] site = "end" -> CRLF
      [] site = "min" -> <<"P", "A", "N", "I", "C", " ", "!", "\r", "\n">>

-----------------------------------------------------------------------------
(* Control flow of _print_panic and panic. *)

MinEntryFallback ==
    IF (~message_feature /\ ~location_feature)
       \/ \A k \in 1..Len(log) : log[k].op = "flush"
    THEN "min" ELSE "halt"

\* if !message_feature && !location_feature { .. }, then back in panic: loop
MinEntry == IF ~message_feature /\ ~location_feature THEN "min" ELSE "halt"

MsgEntryNewline(i) ==
    IF message_feature
    THEN (IF i.message # None THEN "msg" ELSE "end")
    ELSE MinEntry

\* if message_feature { if let Some(str) = info.message().as_str() { .. } }
MsgEntry(i) ==
    IF message_feature /\ i.message # None THEN "msg" ELSE MinEntry

LocEntrySeparator(i) ==
    IF location_feature
    THEN (IF i.location # None THEN LocSites[1] ELSE "sep")
    ELSE MsgEntry(i)

\* if location_feature { if let Some(location) = info.location() { .. } }
LocEntry(i) ==
    IF location_feature /\ i.location # None THEN LocSites[1] ELSE MsgEntry(i)

AfterFlushAbort(ok, i) == IF ok THEN LocEntry(i) ELSE "halt"

\* _ = panic_port.flush(); then _print_panic(panic_port, info)
AfterFlush(ok, i) == LocEntry(i)

Index(site) == CHOOSE k \in 1..Len(LocSites) : LocSites[k] = site

AfterWriteContinue(site, ok, i) ==
    IF site \in Range(LocSites)
    THEN (IF Index(site) < Len(LocSites) THEN LocSites[Index(site) + 1] ELSE "sep")
    ELSE CASE site = "sep" -> MsgEntry(i)
           [] site = "msg" -> "end"
           [] site = "end" -> MinEntry
           [] site = "min" -> "halt"

AfterWriteRetry(site, ok, i) ==
    IF ~ok /\ (log = <<>> \/ log[Len(log)].site # site)
    THEN site
    ELSE AfterWriteContinue(site, ok, i)

\* Where control goes after a write_str call.  An error inside uwrite! ends the
\* macro's expression (its `?`), and `_ =` drops it; every other result is
\* dropped where it is returned.
AfterWrite(site, ok, i) ==
    IF site \in Range(LocSites)
    THEN (IF ok /\ Index(site) < Len(LocSites)
          THEN LocSites[Index(site) + 1]
          ELSE "sep")
    ELSE CASE site = "sep" -> MsgEntry(i)
           [] site = "msg" -> "end"
           [] site = "end" -> MinEntry
           [] site = "min" -> "halt"

AsMutOrFirst == IF PANIC_PORT = None THEN Some(1) ELSE PANIC_PORT

\* unsafe { PANIC_PORT.as_mut() }
AsMut == PANIC_PORT

AfterFenceRestart == "panic"

\* loop { compiler_fence(SeqCst); }
AfterFence == "halt"

StoreOnce(port) == IF PANIC_PORT = None THEN Some(port) ELSE PANIC_PORT

\* PANIC_PORT = Some(port)
Store(port) == Some(port)

\* What a port has taken of a text when write_str returns: all of it on Ok,
\* some proper prefix of it on Err.
Delivered(text, ok) ==
    IF ok THEN {text}
    ELSE {SubSeq(text, 1, n) : n \in 0..(Len(text) - 1)} \cup {<<>>}

-----------------------------------------------------------------------------
(* The program. *)

Init ==
    /\ location_feature \in BOOLEAN
    /\ message_feature \in BOOLEAN
    /\ PANIC_PORT = None
    /\ shared = <<>>
    /\ pc = "main"
    /\ info = NoInfo
    /\ panic_port = None
    /\ out = [p \in Ports |-> <<>>]
    /\ log = <<>>

\* share_serial_port_with_panic(port): the port is moved in, so it is a value
\* the application has not given away before.
share_serial_port_with_panic ==
    /\ pc = "main"
    /\ \E port \in Ports \ Range(shared) :
        /\ PANIC_PORT' = Store(port)
        /\ shared' = Append(shared, port)
    /\ UNCHANGED <<location_feature, message_feature, pc, info, panic_port, out, log>>

\* The runtime calls panic(info).
Panic ==
    /\ pc = "main"
    /\ \E i \in PanicInfos : info' = i
    /\ pc' = "panic"
    /\ UNCHANGED <<location_feature, message_feature, PANIC_PORT, shared,
                   panic_port, out, log>>

\* if let Some(panic_port) = unsafe { PANIC_PORT.as_mut() }
CheckPort ==
    /\ pc = "panic"
    /\ panic_port' = AsMut
    /\ pc' = IF AsMut = None THEN "halt" ELSE "flush"
    /\ UNCHANGED <<location_feature, message_feature, PANIC_PORT, shared, info,
                   out, log>>

\* _ = panic_port.flush();
Flush ==
    /\ pc = "flush"
    /\ \E ok \in BOOLEAN :
        /\ log' = Append(log, [port |-> panic_port[1], op |-> "flush",
                               site |-> "flush", ok |-> ok])
        /\ pc' = AfterFlush(ok, info)
    /\ UNCHANGED <<location_feature, message_feature, PANIC_PORT, shared, info,
                   panic_port, out>>

\* The effect of one w.write_str(..) call made at a call site of _print_panic.
write_str(site) ==
    \E ok \in BOOLEAN :
        /\ \E got \in Delivered(Fragment(site, info), ok) :
            out' = [out EXCEPT ![panic_port[1]] = @ \o got]
        /\ log' = Append(log, [port |-> panic_port[1], op |-> "write_str",
                               site |-> site, ok |-> ok])
        /\ pc' = AfterWrite(site, ok, info)

\* _ = ufmt::uwrite!(w, "Panic at {}:{}:{}", file, line, column);
PrintLocation ==
    /\ pc \in Range(LocSites)
    /\ write_str(pc)
    /\ UNCHANGED <<location_feature, message_feature, PANIC_PORT, shared, info,
                   panic_port>>

\* _ = w.write_str(if message_feature { ": " } else { "\r\n" });
PrintSeparator ==
    /\ pc = "sep"
    /\ write_str("sep")
    /\ UNCHANGED <<location_feature, message_feature, PANIC_PORT, shared, info,
                   panic_port>>

\* _ = core::fmt::write(&mut WriteWrapper(w), format_args!("{}", str));
PrintMessage ==
    /\ pc = "msg"
    /\ write_str("msg")
    /\ UNCHANGED <<location_feature, message_feature, PANIC_PORT, shared, info,
                   panic_port>>

\* _ = w.write_str("\r\n");
PrintNewline ==
    /\ pc = "end"
    /\ write_str("end")
    /\ UNCHANGED <<location_feature, message_feature, PANIC_PORT, shared, info,
                   panic_port>>

\* _ = ufmt::uwriteln!(w, "PANIC !\r");
PrintStatic ==
    /\ pc = "min"
    /\ write_str("min")
    /\ UNCHANGED <<location_feature, message_feature, PANIC_PORT, shared, info,
                   panic_port>>

\* loop { compiler_fence(SeqCst); }
HaltLoop ==
    /\ pc = "halt"
    /\ pc' = AfterFence
    /\ UNCHANGED <<location_feature, message_feature, PANIC_PORT, shared, info,
                   panic_port, out, log>>

Handler ==
    \/ CheckPort
    \/ Flush
    \/ PrintLocation
    \/ PrintSeparator
    \/ PrintMessage
    \/ PrintNewline
    \/ PrintStatic
    \/ HaltLoop

Next ==
    \/ share_serial_port_with_panic
    \/ Panic
    \/ CheckPort
    \/ Flush
    \/ PrintLocation
    \/ PrintSeparator
    \/ PrintMessage
    \/ PrintNewline
    \/ PrintStatic
    \/ HaltLoop

Spec == Init /\ [][Next]_vars

\* Once invoked, the handler is the only code running: it keeps taking steps.
FairSpec == Spec /\ WF_vars(Handler)

-----------------------------------------------------------------------------
(* Vocabulary of the properties. *)

\* The handler found a port, went through flush and _print_panic, and loops.
Reported == pc = "halt" /\ panic_port # None

\* Everything the handler's port has received.
Written == out[panic_port[1]]

WritesOk == \A k \in 1..Len(log) : log[k].op = "write_str" => log[k].ok

NoWriteAt(sites) == \A k \in 1..Len(log) : log[k].site \notin sites

FullMode == location_feature /\ message_feature

\* The location segment as the mode table shows it, written out per location.
ShownLocation(l) ==
    IF l.file = <<"a">>
    THEN <<"P", "a", "n", "i", "c", " ", "a", "t", " ",
           "a", ":", "7", ":", "1", "2", "0">>
    ELSE <<"P", "a", "n", "i", "c", " ", "a", "t", " ",
           "m", ".", "r", "s", ":", "9", "1", ":", "9">>

\* The mode table of the crate documentation, for a record with both fields.
ModeTable(l, m) ==
    CASE location_feature /\ message_feature ->
            ShownLocation(l) \o <<":", " ">> \o m \o <<"\r", "\n">>
      [] location_feature /\ ~message_feature ->
            ShownLocation(l) \o <<"\r", "\n">>
      [] ~location_feature /\ message_feature ->
            m \o <<"\r", "\n">>
      [] ~location_feature /\ ~message_feature ->
            <<"P", "A", "N", "I", "C", " ", "!", "\r", "\n">>

\* The place of a call site in the program text of panic and _print_panic.
Order(site) ==
    CASE site = "flush" -> 0
      [] site \in Range(LocSites) -> Index(site)
      [] site = "sep" -> 7
      [] site = "msg" -> 8
      [] site = "end" -> 9
      [] site = "min" -> 10

-----------------------------------------------------------------------------
(* The claims. *)

\* C1: in each of the four modes, a record with a location and a plain-text
\* message, rendered with every write succeeding, leaves on the port exactly
\* the line of the mode table, CR LF included.
C1_ModeTable ==
    (Reported /\ WritesOk /\ info.location # None /\ info.message # None)
        => Written = ModeTable(info.location[1], info.message[1])

C1_Witness ==
    /\ Reported /\ WritesOk /\ FullMode
    /\ info.location # None /\ info.location[1].line = 91
    /\ info.message = Some(<<"o", "v", "f">>)

\* C2: a panic with PANIC_PORT still None makes no flush and no write on any
\* port, and the handler reaches its loop.
C2_NoPortNoOutput ==
    /\ [](PANIC_PORT = None => (log = <<>> /\ \A p \in Ports : out[p] = <<>>))
    /\ ((pc = "panic" /\ PANIC_PORT = None) ~> (pc = "halt" /\ log = <<>>))

C2_Witness == pc = "halt" /\ PANIC_PORT = None /\ shared = <<>> /\ log = <<>>

\* C3: once the handler is in its loop it stays there and no port is flushed
\* or written again; the calls of one panic are a single pass through the
\* program text.
C3_HaltFinal ==
    /\ [][pc = "halt" => (pc' = "halt" /\ log' = log /\ out' = out)]_vars
    /\ [](\A j, k \in 1..Len(log) : j < k => Order(log[j].site) < Order(log[k].site))

C3_Witness == Reported /\ Len(log) >= 3 /\ Written # <<>>

\* C4: whatever flush and write_str return, the handler reaches its loop, and
\* a call that failed is not made again.
C4_FailuresAbsorbed ==
    /\ (pc # "main") ~> (pc = "halt")
    /\ [](\A j, k \in 1..Len(log) :
            (j < k /\ ~log[j].ok) => log[k].site # log[j].site)

C4_Witness ==
    /\ Reported /\ Len(log) >= 3
    /\ \A k \in 1..Len(log) : ~log[k].ok

\* C5: after two or more share_serial_port_with_panic calls PANIC_PORT holds
\* the port of the last call, and a panic flushes and writes that port only.
C5_LastPortWins ==
    Len(shared) >= 2 =>
        /\ PANIC_PORT = Some(shared[Len(shared)])
        /\ \A k \in 1..Len(log) : log[k].port = shared[Len(shared)]
        /\ \A p \in Ports : p # shared[Len(shared)] => out[p] = <<>>

C5_Witness ==
    /\ Len(shared) >= 2 /\ Reported /\ Len(log) >= 2
    /\ out[shared[Len(shared)]] # <<>>

\* C6: with a port registered the handler flushes once, before any write, and
\* renders the record whether or not the flush succeeded.
C6_FlushFirst ==
    /\ log # <<>> =>
        /\ log[1].op = "flush"
        /\ \A k \in 2..Len(log) : log[k].op = "write_str"
    /\ Reported =>
        /\ log # <<>>
        /\ ((~location_feature /\ ~message_feature)
              \/ (location_feature /\ info.location # None)
              \/ (message_feature /\ info.message # None))
            => Len(log) >= 2

C6_Witness == Reported /\ ~log[1].ok /\ Len(log) >= 2 /\ Written # <<>>

C8_LocationOmitted ==
    (pc # "main" /\ location_feature /\ info.location = None) =>
        /\ NoWriteAt(Range(LocSites) \cup {"sep"})
        /\ (Reported /\ WritesOk /\ message_feature /\ info.message # None)
              => Written = info.message[1] \o <<"\r", "\n">>
        /\ (Reported /\ ~message_feature) => Written = <<>>

C8_Witness ==
    /\ Reported /\ WritesOk /\ FullMode
    /\ info.location = None /\ info.message = Some(<<"o", "v", "f">>)

C10_LineTerminated ==
    (Reported /\ WritesOk) =>
        \/ Written = <<>>
        \/ /\ Len(Written) >= 2
           /\ SubSeq(Written, Len(Written) - 1, Len(Written)) = <<"\r", "\n">>

=============================================================================
